---- MODULE Spec2Model ----
(***************************************************************************)
(* nl-camel: the newsletter scanner (app.py) and the registration bot      *)
(* (register_newsletters.py).                                              *)
(*                                                                         *)
(* Eight specifications share the module's variables:                      *)
(*   AnalyzeSpec   one call of analyze_domain, one path of the loop a step *)
(*   Spec          app.run(): the pool of process_domain tasks, the two    *)
(*                 locks, the stats counters and the CSV sink              *)
(*   FairSpec      Spec with the scheduling of the thread pool             *)
(*   RegisterSpec  register_newsletters.run(): sites x email addresses     *)
(*   ClassifySpec  the keyword classification of one submission response   *)
(*   DetectSpec    detect_newsletter on one document                       *)
(*   FormSpec      find_newsletter_form on one page                        *)
(*   AttemptSpec   one call of register_to_newsletter                      *)
(* A specification leaves the variables of the others at their initial     *)
(* values.                                                                 *)
(***************************************************************************)
EXTENDS Naturals, Sequences, FiniteSets, TLC

VARIABLES
    \* ---- analyze_domain (app.py 157-193)
    an_pc,            \* "idle" | "loop" | "after_loop" | "returned" | "raised"
    an_idx,           \* position of the for loop in paths_to_check
    successful_url,   \* None or the first r.url with status < 400
    max_confidence,
    found_paths,
    all_signals,      \* set of <<path, signal>>: the f"{path}:{signal}" tags
    an_log,           \* history: what each requests.get / detect_newsletter gave
    an_result,        \* the returned dict, or NoResult
    \* ---- app.run and its process_domain tasks (app.py 195-271)
    domains,          \* list(fetch_domains_from_tranco())
    run_pc,           \* position of run()
    futures,          \* the tasks submitted to the executor (indices of domains)
    yielded,          \* the futures as_completed has yielded
    completed,        \* run()'s counter of futures as_completed has yielded
    task_pc,          \* position of each process_domain task
    task_result,      \* each task's local "result"
    task_call,        \* the update_stats call each task is in: arguments, call site
    task_tmp,         \* each task's value read from stats[...] before its += 1
    task_escaped,     \* TRUE when an exception left process_domain (kept by the Future)
    task_script,      \* history: what the paths of each task's domain answered
    task_raised,      \* history: where in its try block each task raised, or "no"
    csv_lock,         \* holder of csv_lock, or Unlocked
    stats_lock,       \* holder of stats_lock, or Unlocked
    stats,            \* the stats dict
    csv_rows,         \* the rows of CSV_FILE after the header
    task_calls,       \* history: update_stats calls finished by each task, by kind
    task_appends,     \* history: append_csv calls finished by each task
    \* ---- register_newsletters.run (register_newsletters.py 171-248)
    sites,            \* read_newsletter_sites()
    emails,           \* EMAIL_ADDRESSES
    reg_pc,           \* position of run()
    site_i,           \* index of the site of the outer loop
    email_j,          \* index of the email of the inner loop
    success_count,
    fail_count,
    skipped_count,
    sites_with_success,
    reg_results,      \* the rows save_result has appended to OUTPUT_CSV
    reg_calls,        \* history: the register_to_newsletter calls, in order
    reg_last,         \* history: what the last register_to_newsletter call did
    output_ok,        \* whether OUTPUT_CSV can be opened for appending
    \* ---- classification of one submission response (register_newsletters.py 111-124)
    cls_body,         \* submit_response.text
    cls_out,          \* NoOutcome, or what register_to_newsletter returned for it
    \* ---- detect_newsletter on one document (app.py 102-155)
    det_doc,          \* the document: its text, forms, services and iframes
    det_out,          \* NoResult, or the returned triple
    \* ---- find_newsletter_form on one page (register_newsletters.py 46-79)
    form_page,        \* soup: the forms of the page in document order
    form_url,         \* url
    form_out,         \* NoOutcome, or [returned |-> the dict or NoResult]
    \* ---- one call of register_to_newsletter (register_newsletters.py 81-131)
    att_site,         \* the site: its url and recorded paths
    att_script,       \* what each path of paths_to_try meets
    att_out           \* NoOutcome, or what the call did

an_vars  == <<an_pc, an_idx, successful_url, max_confidence, found_paths,
              all_signals, an_log, an_result>>
run_vars == <<domains, run_pc, futures, yielded, completed, task_pc, task_result,
              task_call, task_tmp, task_escaped, task_script, task_raised,
              csv_lock, stats_lock, stats, csv_rows, task_calls, task_appends>>
reg_vars == <<sites, emails, reg_pc, site_i, email_j, success_count, fail_count,
              skipped_count, sites_with_success, reg_results, reg_calls, reg_last,
              output_ok>>
cls_vars == <<cls_body, cls_out>>
fn_vars  == <<det_doc, det_out, form_page, form_url, form_out, att_site, att_script,
              att_out>>
vars     == <<an_vars, run_vars, reg_vars, cls_vars, fn_vars>>

None == "None"

\* threading.Lock(): the value of a lock no thread holds (a holder is a task index)
Unlocked == 0

\* Python's None where the other values are dicts
NoResult == [none |-> TRUE]

Range(s) == {s[i] : i \in 1..Len(s)}

Min(a, b) == IF a <= b THEN a ELSE b

(***************************************************************************)
(* detect_newsletter (app.py 102-155).                                     *)
(*                                                                         *)
(* A document is what BeautifulSoup and the keyword tests find in it:      *)
(*   forms     the <form> elements in document order, each with            *)
(*       email_inputs   number of <input type="email">                     *)
(*       named_inputs   number of <input type="text"> whose                *)
(*                      name+id+placeholder holds email / mail / e-mail    *)
(*       action_kw      the action holds subscribe / newsletter / ...      *)
(*       kw_buttons     number of <button>/<input> whose value+text holds  *)
(*                      a NEWSLETTER_KEYWORDS entry                        *)
(*   patterns  the newsletter_patterns that re.search finds in the text    *)
(*   services  the newsletter_services found in html.lower()               *)
(*   iframes   number of <iframe> whose src holds a service name           *)
(***************************************************************************)
NewsletterPatterns ==
    << "newsletter.*sign.*up", "subscribe.*newsletter", "join.*mailing.*list",
       "email.*subscription", "get.*weekly.*digest" >>

\* f"pattern:{pattern[:20]}": the second pattern has 21 characters and loses its last
PatternSignal(p) ==
    CASE p = "newsletter.*sign.*up"   -> "pattern:newsletter.*sign.*up"
      [] p = "subscribe.*newsletter"  -> "pattern:subscribe.*newslette"
      [] p = "join.*mailing.*list"    -> "pattern:join.*mailing.*list"
      [] p = "email.*subscription"    -> "pattern:email.*subscription"
      [] p = "get.*weekly.*digest"    -> "pattern:get.*weekly.*digest"

NewsletterServices ==
    << "mailchimp", "substack", "convertkit", "buttondown",
       "revue", "tinyletter", "sendinblue", "getresponse" >>

ServiceSignal(s) == "service:" \o s

\* the weights added to confidence
W_EMAIL_INPUT  == 30
W_NAMED_INPUT  == 25
W_ACTION       == 20
W_BUTTON       == 15
W_PATTERN      == 10
W_SERVICE      == 25
W_IFRAME       == 20
CLASSIFY_MIN   == 30

\* one pass of "for form in soup.find_all('form')": what the form adds to confidence
FormConfidence(form) ==
      (IF form.email_inputs > 0 THEN W_EMAIL_INPUT ELSE 0)
    + form.named_inputs * W_NAMED_INPUT
    + (IF form.action_kw THEN W_ACTION ELSE 0)
    + form.kw_buttons * W_BUTTON

FormSignals(form) ==
         (IF form.email_inputs > 0 THEN {"form:email_input_type"} ELSE {})
    \cup (IF form.named_inputs > 0 THEN {"form:email_named_input"} ELSE {})
    \cup (IF form.action_kw THEN {"form:newsletter_action"} ELSE {})
    \cup (IF form.kw_buttons > 0 THEN {"form:newsletter_button"} ELSE {})

RECURSIVE FormsConfidence(_)
FormsConfidence(forms) ==
    IF forms = << >> THEN 0
    ELSE FormConfidence(Head(forms)) + FormsConfidence(Tail(forms))

DetectConfidence(doc) ==
      FormsConfidence(doc.forms)
    + Cardinality(doc.patterns) * W_PATTERN
    + Cardinality(doc.services) * W_SERVICE
    + doc.iframes * W_IFRAME

DetectSignals(doc) ==
         UNION {FormSignals(doc.forms[i]) : i \in 1..Len(doc.forms)}
    \cup {PatternSignal(p) : p \in doc.patterns}
    \cup {ServiceSignal(s) : s \in doc.services}
    \cup (IF doc.iframes > 0 THEN {"iframe:newsletter_widget"} ELSE {})

\* sorted(signals): the signal names in ascending string order
SignalOrder ==
    << "form:email_input_type", "form:email_named_input", "form:newsletter_action",
       "form:newsletter_button", "iframe:newsletter_widget",
       "pattern:email.*subscription", "pattern:get.*weekly.*digest",
       "pattern:join.*mailing.*list", "pattern:newsletter.*sign.*up",
       "pattern:subscribe.*newslette", "service:buttondown", "service:convertkit",
       "service:getresponse", "service:mailchimp", "service:revue",
       "service:sendinblue", "service:substack", "service:tinyletter" >>

\* ";".join(sorted(signals)), as the list of its ';'-separated pieces
JoinSignals(set) ==
    LET In(x) == x \in set IN SelectSeq(SignalOrder, In)

\* the returned triple (has_newsletter, confidence, ";".join(sorted(signals)))
detect_newsletter(doc) ==
    LET confidence == DetectConfidence(doc) IN
    [ has_newsletter |-> confidence >= CLASSIFY_MIN,
      confidence     |-> confidence,
      signals        |-> JoinSignals(DetectSignals(doc)) ]

(***************************************************************************)
(* analyze_domain (app.py 157-193).                                        *)
(*                                                                         *)
(* What one pass of the loop meets, line 167 to 172:                       *)
(*   [kind |-> "response", status, url, doc]  requests.get returned r      *)
(*   [kind |-> "RequestException"]            requests.get raised one      *)
(*   [kind |-> "Exception"]                   requests.get or              *)
(*       detect_newsletter raised an exception that is no RequestException *)
(***************************************************************************)
paths_to_check == << "/", "/newsletter", "/subscribe", "/contact", "/about" >>

\* sorted(found_paths): the paths in ascending string order
PathOrder == << "/", "/about", "/contact", "/newsletter", "/subscribe" >>

HTTP_ERROR_MIN == 400
EARLY_EXIT_MIN == 50

base_url(domain) == "https://" \o domain

IsFetched(out) == out.kind = "response" /\ ~(out.status >= HTTP_ERROR_MIN)

\* the locals of analyze_domain before the loop (lines 159-162)
AnalyzeStart ==
    [ successful_url |-> None, max_confidence |-> 0,
      found_paths |-> {}, all_signals |-> {} ]

\* line 173 with >= for >: a tie would replace the recorded maximum
ExceedsMax_OrEqual(det, max) == det.has_newsletter /\ det.confidence >= max

\* line 173 without has_newsletter: a score under 30 would become the maximum
ExceedsMax_AnyScore(det, max) == det.confidence > max

\* line 173: the test that guards the update of the maximum
ExceedsMax(det, max) == det.has_newsletter /\ det.confidence > max

\* line 170 without its test: every fetched path would overwrite successful_url
UrlUnset_Always(url) == TRUE

\* line 170: the test that guards the assignment of successful_url
UrlUnset(url) == url = None

\* line 179 without path == "/": any path scoring 50 would end the loop
EarlyExit_AnyPath(path, confidence) == confidence >= EARLY_EXIT_MIN

\* lines 179-180 left out: the loop would always go through the whole list
EarlyExit_Never(path, confidence) == FALSE

\* line 179: the early exit, reached only inside the branch of line 173
EarlyExit(path, confidence) == path = "/" /\ confidence >= EARLY_EXIT_MIN

\* the locals after one pass of the loop body for `path` (lines 165-182)
PathStep(st, path, out) ==
    IF ~IsFetched(out) THEN st
    ELSE
      LET det == detect_newsletter(out.doc)
          url == IF UrlUnset(st.successful_url) THEN out.url ELSE st.successful_url
      IN IF ExceedsMax(det, st.max_confidence)
         THEN [ successful_url |-> url,
                max_confidence |-> det.confidence,
                found_paths    |-> st.found_paths \cup {path},
                all_signals    |-> st.all_signals
                                   \cup {<<path, sig>> : sig \in Range(det.signals)} ]
         ELSE [st EXCEPT !.successful_url = url]

\* the pass leaves the loop by the break of line 180
PathBreaks(st, path, out) ==
    /\ IsFetched(out)
    /\ LET det == detect_newsletter(out.doc)
       IN ExceedsMax(det, st.max_confidence) /\ EarlyExit(path, det.confidence)

\* the pass leaves analyze_domain by an exception the loop does not catch
PathRaises(out) == out.kind = "Exception"

\* ";".join(sorted(found_paths)) if found_paths else "", as the list of its pieces
JoinPaths(set) ==
    LET In(x) == x \in set IN SelectSeq(PathOrder, In)

\* ";".join(sorted(all_signals)): f"{path}:{signal}" strings sort by path, then signal
RECURSIVE JoinTagged(_, _)
JoinTagged(set, order) ==
    IF order = << >> THEN << >>
    ELSE LET p == Head(order)
             In(x) == <<p, x>> \in set
             here == SelectSeq(SignalOrder, In)
         IN [i \in 1..Len(here) |-> p \o ":" \o here[i]] \o JoinTagged(set, Tail(order))

\* lines 183-193: the returned dict, or None
AnalyzeReturn(domain, st) ==
    IF st.successful_url # None
    THEN [ domain         |-> domain,
           url            |-> st.successful_url,
           has_newsletter |-> st.max_confidence >= CLASSIFY_MIN,
           confidence     |-> st.max_confidence,
           signals        |-> JoinTagged(st.all_signals, PathOrder),
           found_paths    |-> JoinPaths(st.found_paths) ]
    ELSE NoResult

\* analyze_domain as one call, given what each path meets: the outcome of the loop
\* from position i on. [raised |-> TRUE] when an exception leaves the function.
RECURSIVE AnalyzeFrom(_, _, _, _)
AnalyzeFrom(domain, st, script, i) ==
    IF i > Len(paths_to_check)
    THEN [raised |-> FALSE, result |-> AnalyzeReturn(domain, st)]
    ELSE IF PathRaises(script[i])
    THEN [raised |-> TRUE, result |-> NoResult]
    ELSE IF PathBreaks(st, paths_to_check[i], script[i])
    THEN [raised |-> FALSE,
          result |-> AnalyzeReturn(domain, PathStep(st, paths_to_check[i], script[i]))]
    ELSE AnalyzeFrom(domain, PathStep(st, paths_to_check[i], script[i]), script, i + 1)

analyze_domain(domain, script) == AnalyzeFrom(domain, AnalyzeStart, script, 1)

(***************************************************************************)
(* The documents and responses the model draws from.                       *)
(***************************************************************************)
NoForm == << >>

\* text "subscribe to our newsletter": one pattern, confidence 10
DocPattern ==
    [ forms |-> NoForm, patterns |-> {"subscribe.*newsletter"}, services |-> {},
      iframes |-> 0 ]

\* a form with two "Subscribe" buttons and nothing else: 15 + 15
DocButtons ==
    [ forms |-> << [email_inputs |-> 0, named_inputs |-> 0, action_kw |-> FALSE,
                    kw_buttons |-> 2] >>,
      patterns |-> {}, services |-> {}, iframes |-> 0 ]

\* a form with an email input and action="/do-subscribe-newsletter": 30 + 20
DocEmailAction ==
    [ forms |-> << [email_inputs |-> 1, named_inputs |-> 0, action_kw |-> TRUE,
                    kw_buttons |-> 0] >>,
      patterns |-> {}, services |-> {}, iframes |-> 0 ]

\* the same form with a "Subscribe" button: 30 + 20 + 15
DocEmailActionButton ==
    [ forms |-> << [email_inputs |-> 1, named_inputs |-> 0, action_kw |-> TRUE,
                    kw_buttons |-> 1] >>,
      patterns |-> {}, services |-> {}, iframes |-> 0 ]

Docs == {DocPattern, DocButtons, DocEmailAction, DocEmailActionButton}

StatusCodes == {200, 400}

\* r.url: the URL asked for, or the one a redirect to the www host led to
ResponseUrls(domain, path) ==
    {base_url(domain) \o path, "https://www." \o domain \o path}

\* what requests.get and detect_newsletter can give for the path
Outcomes(domain, path) ==
         {[kind |-> "RequestException"], [kind |-> "Exception"]}
    \cup {[kind |-> "response", status |-> 400,
           url |-> base_url(domain) \o path, doc |-> DocPattern]}
    \cup {[kind |-> "response", status |-> 200, url |-> u, doc |-> d] :
              u \in ResponseUrls(domain, path), d \in Docs}

AnDomain == "blog.com"

\* the entry of an_log for one pass
LogEntry(path, out) ==
    [ path       |-> path,
      fetched    |-> IsFetched(out),
      url        |-> IF IsFetched(out) THEN out.url ELSE None,
      confidence |-> IF IsFetched(out) THEN detect_newsletter(out.doc).confidence ELSE 0 ]

AnLocals ==
    [ successful_url |-> successful_url, max_confidence |-> max_confidence,
      found_paths |-> found_paths, all_signals |-> all_signals ]

\* the other parts stand still while analyze_domain runs
AnFrame == UNCHANGED <<run_vars, reg_vars, cls_vars, fn_vars>>

AnInit ==
    /\ an_pc = "loop"
    /\ an_idx = 1
    /\ successful_url = None
    /\ max_confidence = 0
    /\ found_paths = {}
    /\ all_signals = {}
    /\ an_log = << >>
    /\ an_result = NoResult

\* one pass of "for path in paths_to_check" (lines 164-182)
TryPath ==
    /\ an_pc = "loop"
    /\ an_idx <= Len(paths_to_check)
    /\ \E out \in Outcomes(AnDomain, paths_to_check[an_idx]) :
         LET path == paths_to_check[an_idx]
             st   == PathStep(AnLocals, path, out)
         IN /\ an_log' = Append(an_log, LogEntry(path, out))
            /\ IF PathRaises(out)
               THEN /\ an_pc' = "raised"
                    /\ UNCHANGED <<an_idx, successful_url, max_confidence,
                                   found_paths, all_signals>>
               ELSE /\ successful_url' = st.successful_url
                    /\ max_confidence' = st.max_confidence
                    /\ found_paths' = st.found_paths
                    /\ all_signals' = st.all_signals
                    /\ IF PathBreaks(AnLocals, path, out)
                       THEN an_pc' = "after_loop" /\ an_idx' = an_idx
                       ELSE an_pc' = "loop" /\ an_idx' = an_idx + 1
    /\ UNCHANGED an_result
    /\ AnFrame

\* the for loop has no path left
LoopExhausted ==
    /\ an_pc = "loop"
    /\ an_idx > Len(paths_to_check)
    /\ an_pc' = "after_loop"
    /\ UNCHANGED <<an_idx, successful_url, max_confidence, found_paths,
                   all_signals, an_log, an_result>>
    /\ AnFrame

\* lines 183-193
Return ==
    /\ an_pc = "after_loop"
    /\ an_result' = AnalyzeReturn(AnDomain, AnLocals)
    /\ an_pc' = "returned"
    /\ UNCHANGED <<an_idx, successful_url, max_confidence, found_paths,
                   all_signals, an_log>>
    /\ AnFrame

(***************************************************************************)
(* The values the variables of a part keep while another part runs.        *)
(***************************************************************************)
AnIdle ==
    /\ an_pc = "idle"
    /\ an_idx = 1
    /\ successful_url = None
    /\ max_confidence = 0
    /\ found_paths = {}
    /\ all_signals = {}
    /\ an_log = << >>
    /\ an_result = NoResult

RunIdle ==
    /\ domains = << >>
    /\ run_pc = "idle"
    /\ futures = {}
    /\ yielded = {}
    /\ completed = 0
    /\ task_pc = << >>
    /\ task_result = << >>
    /\ task_call = << >>
    /\ task_tmp = << >>
    /\ task_escaped = << >>
    /\ task_script = << >>
    /\ task_raised = << >>
    /\ csv_lock = Unlocked
    /\ stats_lock = Unlocked
    /\ stats = [processed |-> 0, with_newsletter |-> 0, without_newsletter |-> 0,
                errors |-> 0]
    /\ csv_rows = << >>
    /\ task_calls = << >>
    /\ task_appends = << >>

RegIdle ==
    /\ sites = << >>
    /\ emails = << >>
    /\ reg_pc = "idle"
    /\ site_i = 0
    /\ email_j = 0
    /\ success_count = 0
    /\ fail_count = 0
    /\ skipped_count = 0
    /\ sites_with_success = 0
    /\ reg_results = << >>
    /\ reg_calls = << >>
    /\ reg_last = [none |-> TRUE]
    /\ output_ok = TRUE

ClsIdle ==
    /\ cls_body = << >>
    /\ cls_out = [none |-> TRUE]

DetIdle ==
    /\ det_doc = [none |-> TRUE]
    /\ det_out = [none |-> TRUE]

FormIdle ==
    /\ form_page = << >>
    /\ form_url = ""
    /\ form_out = [none |-> TRUE]

AttIdle ==
    /\ att_site = [none |-> TRUE]
    /\ att_script = << >>
    /\ att_out = [none |-> TRUE]

FnIdle == DetIdle /\ FormIdle /\ AttIdle

AnalyzeInit == AnInit /\ RunIdle /\ RegIdle /\ ClsIdle /\ FnIdle

AnalyzeNext == TryPath \/ LoopExhausted \/ Return

AnalyzeSpec == AnalyzeInit /\ [][AnalyzeNext]_vars

(***************************************************************************)
(* Properties of analyze_domain, under AnalyzeSpec.                        *)
(***************************************************************************)
Last(s) == s[Len(s)]

AnLoopLeft == an_pc \in {"after_loop", "returned"}

\* C2: the loop of analyze_domain ends with paths left untried only by the early
\* exit, and then the path just evaluated is the root "/" and its confidence is
\* >= 50; paths are tried in list order, and after any other path, whatever its
\* confidence, the loop goes on to the next path of the list. (An exception that
\* is no RequestException leaves the function without a result: an_pc = "raised".)
C2_EarlyExitOnlyAtRoot ==
    /\ \A k \in 1..Len(an_log) : an_log[k].path = paths_to_check[k]
    /\ an_pc = "loop" => an_idx = Len(an_log) + 1
    /\ (AnLoopLeft /\ Len(an_log) < Len(paths_to_check)) =>
           /\ Len(an_log) = 1
           /\ Last(an_log).path = "/"
           /\ Last(an_log).fetched
           /\ Last(an_log).confidence >= 50
    /\ \A k \in 1..Len(an_log) :
           (an_log[k].path # "/" /\ k < Len(paths_to_check) /\ an_pc # "raised")
               => (k < Len(an_log) \/ (an_pc = "loop" /\ an_idx = k + 1))

\* a path other than the root scored 65 and the loop still went through the list
C2_Witness ==
    /\ an_pc = "returned"
    /\ Len(an_log) = Len(paths_to_check)
    /\ an_log[2].confidence = 65
    /\ an_log[1].confidence = 30

\* C3: max_confidence, found_paths and all_signals change in a pass of the loop
\* only if the confidence of that pass is strictly greater than the running
\* maximum before it; a pass whose confidence equals the maximum changes none.
C3_OnlyStrictlyGreaterReplaces ==
    [][ (\/ max_confidence' # max_confidence
         \/ found_paths' # found_paths
         \/ all_signals' # all_signals)
        => /\ Len(an_log') = Len(an_log) + 1
           /\ Last(an_log').fetched
           /\ Last(an_log').confidence > max_confidence
           /\ max_confidence' = Last(an_log').confidence ]_vars

\* the second path scored 30, the same as the root before it, and only the root
\* is recorded
C3_Witness ==
    /\ Len(an_log) >= 2
    /\ an_log[1].confidence = 30
    /\ an_log[2].confidence = 30
    /\ an_log[2].fetched
    /\ max_confidence = 30
    /\ found_paths = {"/"}

\* the r.url of the first pass, in list order, that fetched with status < 400
RECURSIVE FirstFetchedUrl(_)
FirstFetchedUrl(log) ==
    IF log = << >> THEN None
    ELSE IF Head(log).fetched THEN Head(log).url
    ELSE FirstFetchedUrl(Tail(log))

\* C4: the url of a returned SiteRecord is the response URL of the first path, in
\* list order, fetched with status < 400, whichever path set the maximum
\* confidence; once set, successful_url is not overwritten by a later path.
C4_UrlIsFirstFetched ==
    /\ an_pc # "raised" => successful_url = FirstFetchedUrl(an_log)
    /\ an_pc = "returned" =>
          IF FirstFetchedUrl(an_log) = None
          THEN an_result = NoResult
          ELSE an_result # NoResult /\ an_result.url = FirstFetchedUrl(an_log)

\* the root failed, /newsletter was the first fetched (after a redirect), a later
\* path answered from another URL and alone set the maximum
C4_Witness ==
    /\ an_pc = "returned"
    /\ an_result # NoResult
    /\ ~an_log[1].fetched
    /\ an_result.url = "https://www.blog.com/newsletter"
    /\ an_log[3].fetched /\ an_log[3].url = "https://blog.com/subscribe"
    /\ an_result.found_paths = << "/subscribe" >>

(***************************************************************************)
(* app.run() and the process_domain tasks (app.py 195-271).                *)
(*                                                                         *)
(* Each task is a thread of the pool: its steps interleave with those of   *)
(* the other tasks and of run(). analyze_domain touches nothing shared and *)
(* is one step; append_csv and update_stats are a step per statement.      *)
(* Inside a task an exception may be raised by analyze_domain (any that is *)
(* no RequestException), by the open() of append_csv (OSError) and by the  *)
(* print calls (OSError of a closed or full stdout); update_stats has no   *)
(* statement that fails.                                                   *)
(***************************************************************************)
MaxDomains == 2

MAX_WORKERS == 20
MAX_DOMAINS == 100000
REPORT_EVERY == 50

\* generate_common_domains (lines 91-100): the i-th domain it yields
common_words == << "blog", "news", "tech", "business", "media", "digital", "daily" >>
tlds == << "com", "org", "net", "io", "co" >>
DomainName(i) ==
    common_words[((i - 1) \div Len(tlds)) + 1] \o "." \o tlds[((i - 1) % Len(tlds)) + 1]

Tasks == 1..Len(domains)

\* what the five paths of a domain answer, for the domains the crawl meets
FailedPath(domain, i) ==
    IF i % 2 = 1 THEN [kind |-> "RequestException"]
    ELSE [kind |-> "response", status |-> 400,
          url |-> base_url(domain) \o paths_to_check[i], doc |-> DocPattern]

\* every path fails
ScriptAllFail(domain) == [i \in 1..Len(paths_to_check) |-> FailedPath(domain, i)]

\* the root answers with the given document, the other paths fail
ScriptRoot(domain, doc) ==
    [i \in 1..Len(paths_to_check) |->
        IF i = 1 THEN [kind |-> "response", status |-> 200,
                       url |-> base_url(domain) \o "/", doc |-> doc]
        ELSE FailedPath(domain, i)]

\* the root is fetched and detect_newsletter raises
ScriptRaises(domain) ==
    [i \in 1..Len(paths_to_check) |->
        IF i = 1 THEN [kind |-> "Exception"] ELSE FailedPath(domain, i)]

CrawlScripts(domain) ==
    { ScriptAllFail(domain), ScriptRoot(domain, DocPattern),
      ScriptRoot(domain, DocEmailActionButton), ScriptRaises(domain) }

AllPathsFail(script) == \A i \in 1..Len(script) : ~IsFetched(script[i]) /\ ~PathRaises(script[i])

NoCall == [has_newsletter |-> FALSE, error |-> FALSE, at |-> "none"]

\* line 232: update_stats(result["has_newsletter"])
TryCall(result) == [has_newsletter |-> result.has_newsletter, error |-> FALSE, at |-> "try"]

\* line 239 without error=True: a failed domain would count as "without newsletter"
ElseCall_NoError == [has_newsletter |-> FALSE, error |-> FALSE, at |-> "else"]

\* line 239: update_stats(False, error=True)
ElseCall == [has_newsletter |-> FALSE, error |-> TRUE, at |-> "else"]

\* line 242: update_stats(False, error=True)
ExceptCall == [has_newsletter |-> FALSE, error |-> TRUE, at |-> "except"]

\* lines 212-217: the counter update_stats increments after "processed"
KindOf(call) ==
    IF call.error THEN "errors"
    ELSE IF call.has_newsletter THEN "with_newsletter"
    ELSE "without_newsletter"

\* a lock that is never waited for
LockFree_Ignored(lock) == TRUE

\* threading.Lock: acquire returns only while no thread holds the lock
LockFree(lock) == lock = Unlocked

\* a handler that misses the exception (say "except requests.RequestException")
ProcessDomainCatches_Misses == FALSE

\* line 241: "except Exception" catches every exception the try block raises
ProcessDomainCatches == TRUE

\* csv_lock taken with acquire() and not released when open() raises
ReleasedOnRaise_Held(k) == k

\* line 196: leaving "with csv_lock" by an exception releases the lock
ReleasedOnRaise(k) == Unlocked

\* Future.done(): the task returned or raised
FutureDone(k) == task_pc[k] = "done"

Running == {k \in Tasks : task_pc[k] \notin {"unsubmitted", "queued", "done"}}

RunFrame == UNCHANGED <<an_vars, reg_vars, cls_vars, fn_vars>>

RunInit ==
    /\ \E n \in 0..MaxDomains : domains = [i \in 1..n |-> DomainName(i)]
    /\ run_pc = "check_domains"
    /\ futures = {}
    /\ yielded = {}
    /\ completed = 0
    /\ task_pc = [k \in Tasks |-> "unsubmitted"]
    /\ task_result = [k \in Tasks |-> NoResult]
    /\ task_call = [k \in Tasks |-> NoCall]
    /\ task_tmp = [k \in Tasks |-> 0]
    /\ task_escaped = [k \in Tasks |-> FALSE]
    /\ task_script = [k \in Tasks |-> << >>]
    /\ task_raised = [k \in Tasks |-> "no"]
    /\ csv_lock = Unlocked
    /\ stats_lock = Unlocked
    /\ stats = [processed |-> 0, with_newsletter |-> 0, without_newsletter |-> 0,
                errors |-> 0]
    /\ csv_rows = << >>
    /\ task_calls = [k \in Tasks |-> [with_newsletter |-> 0, without_newsletter |-> 0,
                                      errors |-> 0]]
    /\ task_appends = [k \in Tasks |-> 0]

\* ---- run()

\* lines 254-257
RunCheckDomains ==
    /\ run_pc = "check_domains"
    /\ run_pc' = IF domains = << >> THEN "returned" ELSE "submit"
    /\ UNCHANGED <<domains, futures, yielded, completed, task_pc, task_result,
                   task_call, task_tmp, task_escaped, task_script, task_raised,
                   csv_lock, stats_lock, stats, csv_rows, task_calls, task_appends>>
    /\ RunFrame

\* lines 261-264: executor.submit(process_domain, domain) for the next domain
RunSubmit ==
    /\ run_pc = "submit"
    /\ LET k == Cardinality(futures) + 1
       IN IF k <= Min(Len(domains), MAX_DOMAINS)
          THEN /\ futures' = futures \cup {k}
               /\ task_pc' = [task_pc EXCEPT ![k] = "queued"]
               /\ run_pc' = run_pc
          ELSE /\ run_pc' = "as_completed"
               /\ UNCHANGED <<futures, task_pc>>
    /\ UNCHANGED <<domains, yielded, completed, task_result, task_call, task_tmp,
                   task_escaped, task_script, task_raised, csv_lock, stats_lock,
                   stats, csv_rows, task_calls, task_appends>>
    /\ RunFrame

\* lines 266-269: as_completed yields a finished future; its result() is never
\* asked for, so an exception it keeps stays there. print_stats at every 50th.
RunAsCompleted ==
    /\ run_pc = "as_completed"
    /\ \E k \in futures \ yielded :
         /\ FutureDone(k)
         /\ yielded' = yielded \cup {k}
    /\ completed' = completed + 1
    /\ (completed + 1) % REPORT_EVERY = 0 => LockFree(stats_lock)
    /\ UNCHANGED <<domains, run_pc, futures, task_pc, task_result, task_call,
                   task_tmp, task_escaped, task_script, task_raised, csv_lock,
                   stats_lock, stats, csv_rows, task_calls, task_appends>>
    /\ RunFrame

\* the end of the with block: executor.shutdown(wait=True)
RunExitPool ==
    /\ run_pc = "as_completed"
    /\ yielded = futures
    /\ \A k \in futures : FutureDone(k)
    /\ run_pc' = "final_report"
    /\ UNCHANGED <<domains, futures, yielded, completed, task_pc, task_result,
                   task_call, task_tmp, task_escaped, task_script, task_raised,
                   csv_lock, stats_lock, stats, csv_rows, task_calls, task_appends>>
    /\ RunFrame

\* line 270: the final print_stats(), which takes stats_lock
RunFinalReport ==
    /\ run_pc = "final_report"
    /\ LockFree(stats_lock)
    /\ run_pc' = "done"
    /\ UNCHANGED <<domains, futures, yielded, completed, task_pc, task_result,
                   task_call, task_tmp, task_escaped, task_script, task_raised,
                   csv_lock, stats_lock, stats, csv_rows, task_calls, task_appends>>
    /\ RunFrame

\* ---- process_domain(domains[k]), a task of the pool

RunCtl == <<domains, run_pc, futures, yielded, completed>>

\* str(row["has_newsletter"]) as csv.writer writes it
PyStr(b) == IF b THEN "True" ELSE "False"

\* lines 199-207: the row written for a result (the timestamp left out;
\* confidence is written str(int) and read back int(str), the same number)
CsvRow(row) ==
    [ domain |-> row.domain, url |-> row.url,
      has_newsletter |-> PyStr(row.has_newsletter),
      confidence_score |-> row.confidence,
      signals_found |-> row.signals,
      found_newsletter_path |-> row.found_paths ]

\* an exception raised at `where` inside the try block of lines 228-240:
\* the handler of lines 241-243 starts with update_stats(False, error=True)
RaisedInTry(k, where) ==
    /\ task_raised' = [task_raised EXCEPT ![k] = where]
    /\ IF ProcessDomainCatches
       THEN /\ task_call' = [task_call EXCEPT ![k] = ExceptCall]
            /\ task_pc' = [task_pc EXCEPT ![k] = "stats_acquire"]
            /\ UNCHANGED task_escaped
       ELSE /\ task_escaped' = [task_escaped EXCEPT ![k] = TRUE]
            /\ task_pc' = [task_pc EXCEPT ![k] = "done"]
            /\ UNCHANGED task_call

\* a worker of the pool takes the task (at most MAX_WORKERS run at once) and
\* runs lines 229-230 and 238-239: result = analyze_domain(domain)
TaskAnalyze(k) ==
    /\ task_pc[k] = "queued"
    /\ Cardinality(Running) < MAX_WORKERS
    /\ \E script \in CrawlScripts(domains[k]) :
         LET r == analyze_domain(domains[k], script)
         IN /\ task_script' = [task_script EXCEPT ![k] = script]
            /\ IF r.raised
               THEN /\ RaisedInTry(k, "analyze_domain")
                    /\ UNCHANGED task_result
               ELSE /\ task_result' = [task_result EXCEPT ![k] = r.result]
                    /\ IF r.result # NoResult
                       THEN /\ task_pc' = [task_pc EXCEPT ![k] = "csv_acquire"]
                            /\ UNCHANGED task_call
                       ELSE /\ task_pc' = [task_pc EXCEPT ![k] = "stats_acquire"]
                            /\ task_call' = [task_call EXCEPT ![k] = ElseCall]
                    /\ UNCHANGED <<task_raised, task_escaped>>
    /\ UNCHANGED <<RunCtl, task_tmp, csv_lock, stats_lock, stats, csv_rows,
                   task_calls, task_appends>>
    /\ RunFrame

\* line 196: with csv_lock
CsvAcquire(k) ==
    /\ task_pc[k] = "csv_acquire"
    /\ LockFree(csv_lock)
    /\ csv_lock' = k
    /\ task_pc' = [task_pc EXCEPT ![k] = "csv_open"]
    /\ UNCHANGED <<RunCtl, task_result, task_call, task_tmp, task_escaped, task_script,
                   task_raised, stats_lock, stats, csv_rows, task_calls, task_appends>>
    /\ RunFrame

\* line 197: open(CSV_FILE, "a") raises OSError; the with statement releases csv_lock
CsvOpenRaises(k) ==
    /\ task_pc[k] = "csv_open"
    /\ csv_lock' = ReleasedOnRaise(k)
    /\ RaisedInTry(k, "append_csv")
    /\ UNCHANGED <<RunCtl, task_result, task_tmp, task_script, stats_lock, stats,
                   csv_rows, task_calls, task_appends>>
    /\ RunFrame

\* lines 197-207: open() succeeds, the row is written, both with blocks end;
\* then line 232 calls update_stats
CsvWrite(k) ==
    /\ task_pc[k] = "csv_open"
    /\ csv_rows' = Append(csv_rows, CsvRow(task_result[k]))
    /\ csv_lock' = Unlocked
    /\ task_appends' = [task_appends EXCEPT ![k] = @ + 1]
    /\ task_call' = [task_call EXCEPT ![k] = TryCall(task_result[k])]
    /\ task_pc' = [task_pc EXCEPT ![k] = "stats_acquire"]
    /\ UNCHANGED <<RunCtl, task_result, task_tmp, task_escaped, task_script,
                   task_raised, stats_lock, stats, task_calls>>
    /\ RunFrame

\* lines 210-211: with stats_lock, and the load of stats["processed"]
StatsAcquire(k) ==
    /\ task_pc[k] = "stats_acquire"
    /\ LockFree(stats_lock)
    /\ stats_lock' = k
    /\ task_tmp' = [task_tmp EXCEPT ![k] = stats.processed]
    /\ task_pc' = [task_pc EXCEPT ![k] = "stats_processed"]
    /\ UNCHANGED <<RunCtl, task_result, task_call, task_escaped, task_script,
                   task_raised, csv_lock, stats, csv_rows, task_calls, task_appends>>
    /\ RunFrame

\* line 211: the store of the value loaded plus 1; lines 212-217: the load of
\* the counter of the call's kind
StatsStoreProcessed(k) ==
    /\ task_pc[k] = "stats_processed"
    /\ stats' = [stats EXCEPT !.processed = task_tmp[k] + 1]
    /\ task_tmp' = [task_tmp EXCEPT ![k] = stats[KindOf(task_call[k])]]
    /\ task_pc' = [task_pc EXCEPT ![k] = "stats_kind"]
    /\ UNCHANGED <<RunCtl, task_result, task_call, task_escaped, task_script,
                   task_raised, csv_lock, stats_lock, csv_rows, task_calls,
                   task_appends>>
    /\ RunFrame

\* lines 212-217: the store of the value loaded plus 1, and the end of the with block
StatsStoreKind(k) ==
    /\ task_pc[k] = "stats_kind"
    /\ stats' = [stats EXCEPT ![KindOf(task_call[k])] = task_tmp[k] + 1]
    /\ stats_lock' = Unlocked
    /\ task_tmp' = [task_tmp EXCEPT ![k] = 0]
    /\ task_calls' = [task_calls EXCEPT ![k][KindOf(task_call[k])] = @ + 1]
    /\ task_pc' = [task_pc EXCEPT ![k] = "print"]
    /\ UNCHANGED <<RunCtl, task_result, task_call, task_escaped, task_script,
                   task_raised, csv_lock, csv_rows, task_appends>>
    /\ RunFrame

\* lines 233-237, 240 and 244, 243 and 244: the print succeeds and the task returns
TaskPrint(k) ==
    /\ task_pc[k] = "print"
    /\ task_pc' = [task_pc EXCEPT ![k] = "done"]
    /\ UNCHANGED <<RunCtl, task_result, task_call, task_tmp, task_escaped, task_script,
                   task_raised, csv_lock, stats_lock, stats, csv_rows, task_calls,
                   task_appends>>
    /\ RunFrame

\* the print raises: at lines 236 and 240 inside the try block; at line 243 in
\* the handler, from where the exception leaves process_domain
TaskPrintRaises(k) ==
    /\ task_pc[k] = "print"
    /\ IF task_call[k].at = "except"
       THEN /\ task_escaped' = [task_escaped EXCEPT ![k] = TRUE]
            /\ task_pc' = [task_pc EXCEPT ![k] = "done"]
            /\ UNCHANGED <<task_call, task_raised>>
       ELSE RaisedInTry(k, "print")
    /\ UNCHANGED <<RunCtl, task_result, task_tmp, task_script, csv_lock, stats_lock,
                   stats, csv_rows, task_calls, task_appends>>
    /\ RunFrame

Init == AnIdle /\ RunInit /\ RegIdle /\ ClsIdle /\ FnIdle

Next ==
    \/ RunCheckDomains
    \/ RunSubmit
    \/ RunAsCompleted
    \/ RunExitPool
    \/ RunFinalReport
    \/ \E k \in Tasks : TaskAnalyze(k)
    \/ \E k \in Tasks : CsvAcquire(k)
    \/ \E k \in Tasks : CsvOpenRaises(k)
    \/ \E k \in Tasks : CsvWrite(k)
    \/ \E k \in Tasks : StatsAcquire(k)
    \/ \E k \in Tasks : StatsStoreProcessed(k)
    \/ \E k \in Tasks : StatsStoreKind(k)
    \/ \E k \in Tasks : TaskPrint(k)
    \/ \E k \in Tasks : TaskPrintRaises(k)

Spec == Init /\ [][Next]_vars

\* the threads of the pool and the main thread keep being scheduled
FairSpec == Spec /\ WF_vars(Next)

(***************************************************************************)
(* Properties of the crawl, under Spec and FairSpec.                       *)
(***************************************************************************)
RECURSIVE SumTo(_, _)
SumTo(f, n) == IF n = 0 THEN 0 ELSE f[n] + SumTo(f, n - 1)

\* the update_stats calls of a kind that the tasks have finished
CallsOf(kind) == SumTo([k \in Tasks |-> task_calls[k][kind]], Len(domains))

RowsOf(domain) == {i \in 1..Len(csv_rows) : csv_rows[i].domain = domain}

InStats == {k \in Tasks : task_pc[k] \in {"stats_processed", "stats_kind"}}

InCsv == {k \in Tasks : task_pc[k] = "csv_open"}

\* C5: when every path of a task's domain fails (status >= 400 or a
\* RequestException on each), analyze_domain returns no record; the task appends
\* no row, makes no update_stats call of the kind with_newsletter or
\* without_newsletter, and by its end has made one of the kind errors (each call
\* adds 1 to stats.processed too).
C5_AllPathsFailIsAnError ==
    \A k \in Tasks :
        (task_script[k] # << >> /\ AllPathsFail(task_script[k])) =>
            /\ task_result[k] = NoResult
            /\ task_raised[k] # "analyze_domain"
            /\ task_appends[k] = 0
            /\ RowsOf(domains[k]) = {}
            /\ task_calls[k].with_newsletter = 0
            /\ task_calls[k].without_newsletter = 0
            /\ task_pc[k] = "done" =>
                   /\ task_calls[k].errors >= 1
                   /\ stats.errors >= 1
                   /\ stats.processed >= 1

\* a task whose paths all failed has ended, counted once as an error, beside a
\* task that wrote its row
C5_Witness ==
    /\ Len(domains) = 2
    /\ task_pc[1] = "done"
    /\ AllPathsFail(task_script[1])
    /\ task_calls[1].errors = 1
    /\ stats.errors = 1
    /\ task_pc[2] = "done"
    /\ task_appends[2] = 1

\* C6 (the claim as stated; the code violates it): a finished task has either
\* written one row and counted one classification and no error, or counted an
\* error and written no row, never both a row and an error.
C6_RecordXorError ==
    \A k \in Tasks :
        task_pc[k] = "done" =>
            \/ /\ Cardinality(RowsOf(domains[k])) = 1
               /\ task_calls[k].with_newsletter + task_calls[k].without_newsletter = 1
               /\ task_calls[k].errors = 0
            \/ /\ task_calls[k].errors >= 1
               /\ RowsOf(domains[k]) = {}

\* a step of task k
TaskStep(k) ==
    \/ TaskAnalyze(k) \/ CsvAcquire(k) \/ CsvOpenRaises(k)
    \/ CsvWrite(k) \/ StatsAcquire(k) \/ StatsStoreProcessed(k) \/ StatsStoreKind(k)
    \/ TaskPrint(k) \/ TaskPrintRaises(k)

\* task k can take a step, or waits for a lock whose holder can
CanGoOn(k) ==
    \/ ENABLED TaskStep(k)
    \/ task_pc[k] = "csv_acquire" /\ csv_lock \in Tasks /\ ENABLED TaskStep(csv_lock)
    \/ task_pc[k] = "stats_acquire" /\ stats_lock \in Tasks /\ ENABLED TaskStep(stats_lock)

\* C7: an exception raised in a task by analyze_domain (detect_newsletter
\* included) or by append_csv is caught in process_domain and counted in
\* stats.errors: it does not leave process_domain. It stops no other task: every
\* submitted task that has not ended can go on, whatever the others raised, and
\* run() comes to its final report only after all of them have ended.
C7_TaskExceptionsAreCounted ==
    /\ \A k \in Tasks :
         task_raised[k] \in {"analyze_domain", "append_csv"} =>
             /\ task_escaped[k] => task_calls[k].errors >= 1
             /\ task_pc[k] # "done" \/ (task_calls[k].errors >= 1 /\ stats.errors >= 1)
    /\ \A k \in futures : task_pc[k] # "done" => CanGoOn(k)
    /\ run_pc \in {"final_report", "done"} => \A k \in Tasks : task_pc[k] = "done"

\* analyze_domain raised in task 1, which counted the error and ended; task 2
\* wrote its row and ended; run() gave its final report
C7_Witness ==
    /\ Len(domains) = 2
    /\ run_pc = "done"
    /\ task_raised[1] = "analyze_domain"
    /\ task_calls[1].errors = 1
    /\ ~task_escaped[1]
    /\ task_appends[2] = 1
    /\ task_pc[2] = "done"

\* C8 (the claim as stated): run() always reaches its final report, with every
\* task ended by then.
C8_ReportAlwaysReached ==
    /\ <>(run_pc = "done")
    /\ [](run_pc \in {"final_report", "done"} => \A k \in Tasks : task_pc[k] = "done")

\* C8 (amended): when the list of domains is not empty, run() reaches its final
\* report, and every domain has been submitted and every task has ended when it
\* does; with an empty list run() returns at line 256 and gives no report.
C8_ReportReachedWhenDomains ==
    /\ (domains # << >>) => <>(run_pc = "done")
    /\ [](run_pc \in {"final_report", "done"} =>
             /\ futures = Tasks
             /\ \A k \in Tasks : task_pc[k] = "done")
    /\ [](domains = << >> => run_pc \in {"check_domains", "returned"})

\* the final report of a run of two domains, one of whose tasks let an
\* exception out of its handler
C8_Witness ==
    /\ run_pc = "done"
    /\ Len(domains) = 2
    /\ task_escaped[1]
    /\ \A k \in Tasks : task_pc[k] = "done"

\* C9: no two tasks are inside update_stats at once, none two inside append_csv;
\* while no task is inside update_stats each counter equals the number of
\* update_stats calls of its kind that have finished (so at the end too), and
\* the sink holds one whole row for each append_csv that has finished.
C9_LocksKeepCounts ==
    /\ Cardinality(InStats) <= 1
    /\ Cardinality(InCsv) <= 1
    /\ InStats = {} =>
          /\ stats.with_newsletter = CallsOf("with_newsletter")
          /\ stats.without_newsletter = CallsOf("without_newsletter")
          /\ stats.errors = CallsOf("errors")
          /\ stats.processed = CallsOf("with_newsletter") + CallsOf("without_newsletter")
                               + CallsOf("errors")
    /\ Len(csv_rows) = SumTo(task_appends, Len(domains))
    /\ \A i \in 1..Len(csv_rows) :
          \E k \in Tasks : task_appends[k] = 1 /\ csv_rows[i] = CsvRow(task_result[k])

\* a task waits for stats_lock while the other is between its read and its
\* store of a counter, and a task waits for csv_lock while the other writes
C9_Witness ==
    /\ Len(domains) = 2
    /\ task_pc[1] = "stats_processed"
    /\ task_pc[2] = "stats_acquire"
    /\ stats.processed = 0

\* C20 (the claim as stated; the code violates it): every finished task has
\* made exactly one update_stats call, so when the final report is emitted
\* stats.processed is the number of dispatched domains and equals
\* with_newsletter + without_newsletter + errors.
C20_ProcessedOncePerDomain ==
    /\ \A k \in Tasks :
          task_pc[k] = "done" =>
              task_calls[k].with_newsletter + task_calls[k].without_newsletter
                  + task_calls[k].errors = 1
    /\ run_pc = "done" =>
          /\ stats.processed = Len(domains)
          /\ stats.processed = stats.with_newsletter + stats.without_newsletter
                                + stats.errors

(***************************************************************************)
(* The classification of a submission response                             *)
(* (register_newsletters.py 111-124).                                      *)
(*                                                                         *)
(* A text is the sequence of its characters, so that "kw in response_text" *)
(* is the search of a subsequence and .lower() maps character by character.*)
(***************************************************************************)
UpperLetters ==
    << "A", "B", "C", "D", "E", "F", "G", "H", "I", "J", "K", "L", "M", "N", "O", "P", "Q", "R", "S", "T", "U", "V", "W", "X", "Y", "Z" >>
LowerLetters ==
    << "a", "b", "c", "d", "e", "f", "g", "h", "i", "j", "k", "l", "m", "n", "o", "p", "q", "r", "s", "t", "u", "v", "w", "x", "y", "z" >>

LowerChar(c) ==
    IF \E i \in 1..Len(UpperLetters) : UpperLetters[i] = c
    THEN LowerLetters[CHOOSE i \in 1..Len(UpperLetters) : UpperLetters[i] = c]
    ELSE c

\* str.lower()
Lower(text) == [i \in 1..Len(text) |-> LowerChar(text[i])]

\* kw in text
Contains(text, kw) ==
    \E i \in 0..(Len(text) - Len(kw)) : SubSeq(text, i + 1, i + Len(kw)) = kw

\* line 112
success_keywords ==
    << << "t", "h", "a", "n", "k" >>,
      << "s", "u", "c", "c", "e", "s", "s" >>,
      << "c", "o", "n", "f", "i", "r", "m" >>,
      << "s", "u", "b", "s", "c", "r", "i", "b", "e", "d" >>,
      << "c", "h", "e", "c", "k", " ", "y", "o", "u", "r", " ", "e", "m", "a", "i", "l" >>,
      << "w", "e", "l", "c", "o", "m", "e" >> >>

\* line 113
error_keywords ==
    << << "e", "r", "r", "o", "r" >>,
      << "i", "n", "v", "a", "l", "i", "d" >>,
      << "f", "a", "i", "l", "e", "d" >>,
      << "a", "l", "r", "e", "a", "d", "y", " ", "s", "u", "b", "s", "c", "r", "i", "b", "e", "d" >> >>

\* any(kw in response_text for kw in keywords)
AnyIn(text, keywords) == \E j \in 1..Len(keywords) : Contains(text, keywords[j])

\* line 111 without .lower(): the keywords would be searched in the body as sent
ResponseText_AsSent(body) == body

\* line 111: response_text = submit_response.text.lower()
ResponseText(body) == Lower(body)

\* lines 112-124: the pair register_to_newsletter returns for a submission
ClassifyResponse(body) ==
    LET response_text == ResponseText(body)
        has_success   == AnyIn(response_text, success_keywords)
        has_error     == AnyIn(response_text, error_keywords)
    IN IF has_success /\ ~has_error
       THEN [success |-> TRUE, message |-> "Success - confirmation detected"]
       ELSE IF has_error
       THEN [success |-> FALSE, message |-> "Failed - error message in response"]
       ELSE [success |-> TRUE, message |-> "Success - form submitted"]

\* the pieces response bodies are made of
Fragments ==
    << << "T", "h", "a", "n", "k", " ", "y", "o", "u" >>,
      << "S", "U", "C", "C", "E", "S", "S" >>,
      << "I", "n", "v", "a", "l", "i", "d" >>,
      << "s", "u", "b", "s", "c", "r", "i", "b", "e", "d" >>,
      << "a", "l", "r", "e", "a", "d", "y", " " >>,
      << "c", "h", "e", "c", "k", " ", "y", "o", "u", "r", " " >>,
      << "e", "m", "a", "i", "l" >>,
      << "e", "r", "r" >>,
      << "o", "r" >>,
      << "w", "e", "l", "c", "o", "m", "e" >> >>

MaxFragments == 2

RECURSIVE Concat(_)
Concat(parts) == IF parts = << >> THEN << >> ELSE Head(parts) \o Concat(Tail(parts))

\* the bodies of at most MaxFragments pieces
Bodies ==
    { Concat([i \in 1..Len(pick) |-> Fragments[pick[i]]]) :
        pick \in UNION {[1..n -> 1..Len(Fragments)] : n \in 0..MaxFragments} }

NoOutcome == [none |-> TRUE]

ClsFrame == UNCHANGED <<an_vars, run_vars, reg_vars, fn_vars>>

ClsInit ==
    /\ cls_body \in Bodies
    /\ cls_out = NoOutcome

\* the submission answered with cls_body: lines 111-124
Classify ==
    /\ cls_out = NoOutcome
    /\ cls_out' = ClassifyResponse(cls_body)
    /\ UNCHANGED cls_body
    /\ ClsFrame

ClassifyInit == AnIdle /\ RunIdle /\ RegIdle /\ ClsInit /\ FnIdle

ClassifyNext == Classify

ClassifySpec == ClassifyInit /\ [][ClassifyNext]_vars

\* C10: a response body that holds (in any letter case) a success keyword and no
\* error keyword gives Confirmed, succeeded = true; one that holds an error
\* keyword, with a success keyword or without, gives ErrorDetected, succeeded =
\* false; one that holds neither gives AssumedSuccess, succeeded = true.
C10_OutcomeByKeywords ==
    cls_out # NoOutcome =>
        LET mentions_success == AnyIn(Lower(cls_body), success_keywords)
            mentions_error   == AnyIn(Lower(cls_body), error_keywords)
        IN /\ (mentions_success /\ ~mentions_error) =>
                  cls_out = [success |-> TRUE, message |-> "Success - confirmation detected"]
           /\ mentions_error =>
                  cls_out = [success |-> FALSE, message |-> "Failed - error message in response"]
           /\ (~mentions_success /\ ~mentions_error) =>
                  cls_out = [success |-> TRUE, message |-> "Success - form submitted"]

\* "already subscribed" holds the success keyword "subscribed" and is an error
C10_Witness ==
    /\ cls_body = Concat(<< Fragments[5], Fragments[4] >>)
    /\ cls_out = [success |-> FALSE, message |-> "Failed - error message in response"]

(***************************************************************************)
(* find_newsletter_form (register_newsletters.py 46-79).                   *)
(*                                                                         *)
(* A form is                                                               *)
(*   inputs       its <input>/<textarea> elements in document order, each  *)
(*                [type, name (None when it has no name attribute), value, *)
(*                 mail_like (name+id+placeholder holds "email" or "mail")]*)
(*   markup       str(form), the serialized form, as its characters        *)
(*   action       the action attribute, "" when absent                     *)
(*   method       the method attribute, None when absent                   *)
(***************************************************************************)
IsEmailTyped(inp) == inp.type = "email"
IsMailLikeText(inp) == inp.type = "text" /\ inp.mail_like

\* lines 50-56
EmailInputs(form) ==
    IF SelectSeq(form.inputs, IsEmailTyped) # << >>
    THEN SelectSeq(form.inputs, IsEmailTyped)
    ELSE SelectSeq(form.inputs, IsMailLikeText)

\* lines 63-71: name -> value of the named inputs that are no submit or button
FormFields(form) ==
    LET kept == {i \in 1..Len(form.inputs) :
                    /\ form.inputs[i].name \notin {None, ""}
                    /\ form.inputs[i].type \notin {"submit", "button"}}
        last(n) == CHOOSE i \in kept :
                      /\ form.inputs[i].name = n
                      /\ \A j \in kept : form.inputs[j].name = n => j <= i
    IN [n \in {form.inputs[i].name : i \in kept} |-> form.inputs[last(n)].value]

\* form.get('method', 'post').lower()
FormMethod(form) ==
    IF form.method = None THEN "post"
    ELSE IF form.method \in {"GET", "Get", "get"} THEN "get"
    ELSE IF form.method \in {"POST", "Post", "post"} THEN "post"
    ELSE form.method

\* urlparse(url): scheme://netloc of the URLs the model uses
UrlBases == UNION {{base_url(DomainName(i)), "https://www." \o DomainName(i)} : i \in 1..8}
UrlBase(url) ==
    CHOOSE b \in UrlBases : \E path \in Range(paths_to_check) : url = b \o path

\* urljoin(url, action) for an action that is a full URL or starts with "/"
AbsoluteActions == {"https://list.example/subscribe"}
UrlJoin(url, action) == IF action \in AbsoluteActions THEN action ELSE UrlBase(url) \o action

\* lines 60-78: the dict returned for a qualifying form
FormDescriptor(form, url) ==
    LET email_input == EmailInputs(form)[1]
    IN [ action      |-> IF form.action # "" THEN UrlJoin(url, form.action) ELSE url,
         method      |-> FormMethod(form),
         fields      |-> FormFields(form),
         email_field |-> IF email_input.name = None THEN "email" ELSE email_input.name ]

\* lines 57-59
newsletter_keywords ==
    << << "n", "e", "w", "s", "l", "e", "t", "t", "e", "r" >>,
       << "s", "u", "b", "s", "c", "r", "i", "b", "e" >>,
       << "s", "i", "g", "n", "u", "p" >>,
       << "j", "o", "i", "n" >>,
       << "m", "a", "i", "l", "i", "n", "g" >> >>

\* lines 49 and 59: a keyword in str(form).lower()
HasKeyword(form) == AnyIn(Lower(form.markup), newsletter_keywords)

Qualifies_EmailOnly(form) == EmailInputs(form) # << >>
Qualifies(form) == EmailInputs(form) # << >> /\ HasKeyword(form)

RECURSIVE find_newsletter_form(_, _)
find_newsletter_form(forms, url) ==
    IF forms = << >> THEN NoResult
    ELSE IF Qualifies(Head(forms)) THEN FormDescriptor(Head(forms), url)
    ELSE find_newsletter_form(Tail(forms), url)

\* the bodies a submission answers with
RegBodies ==
    { << "T", "h", "a", "n", "k", " ", "y", "o", "u" >>,
      << "I", "n", "v", "a", "l", "i", "d", " ", "e", "m", "a", "i", "l" >>,
      << "o", "k" >> }

\* lines 111-124 for each of these bodies
RegClassified == [body \in RegBodies |-> ClassifyResponse(body)]

(***************************************************************************)
(* register_to_newsletter (register_newsletters.py 81-131).                *)
(*                                                                         *)
(* `paths` is the found_newsletter_path column as the list of its          *)
(* ';'-separated pieces (the empty list for the empty string).  What one   *)
(* path of the loop meets:                                                 *)
(*   [kind |-> "Timeout"]           session.get raised requests.Timeout    *)
(*   [kind |-> "ConnectionError"]   session.get raised another exception   *)
(*   [kind |-> "ParseError"]        the page came with status < 400 and    *)
(*                                  BeautifulSoup raised on its text       *)
(*   [kind |-> "page", status, forms, submit]        the page came; submit *)
(*       is what the submission of its form meets: a Timeout, an Exception *)
(*       or [kind |-> "response", body]                                    *)
(***************************************************************************)
\* lines 84-88
PathsToTry(paths) ==
    IF paths = << >> \/ "/" \notin Range(paths) THEN << "/" >> \o paths ELSE paths

\* line 104: form_data['fields'][form_data['email_field']] = email
FillEmail(form_data, email) ==
    [form_data EXCEPT !.fields =
        [n \in DOMAIN form_data.fields \cup {form_data.email_field} |->
            IF n = form_data.email_field THEN email ELSE form_data.fields[n]]]

\* lines 125-130: "except requests.Timeout" and "except Exception" around the
\* body of the loop
AttemptCatches_TimeoutOnly(kind) == kind = "Timeout"
AttemptCatches(kind) == TRUE

\* an exception the handlers of the loop let through
Escaped(kind, fetched) ==
    [ raised |-> TRUE, success |-> FALSE, message |-> kind, fetched |-> fetched,
      submitted |-> NoResult ]

\* the loop of lines 89-130 from its i-th path on, and line 131
RECURSIVE RegisterFrom(_, _, _, _, _, _)
RegisterFrom(url, email, try, script, i, fetched) ==
    IF i > Len(try)
    THEN [ raised |-> FALSE, success |-> FALSE,
           message |-> "Failed - no working form found",
           fetched |-> fetched, submitted |-> NoResult ]
    ELSE
      LET full_url  == UrlBase(url) \o try[i]
          out       == script[i]
          now       == Append(fetched, full_url)
          form_data == find_newsletter_form(out.forms, full_url)
      IN IF out.kind # "page"
         THEN IF AttemptCatches(out.kind)
              THEN RegisterFrom(url, email, try, script, i + 1, now)
              ELSE Escaped(out.kind, now)
         ELSE IF out.status >= HTTP_ERROR_MIN
         THEN RegisterFrom(url, email, try, script, i + 1, now)
         ELSE IF form_data = NoResult
         THEN RegisterFrom(url, email, try, script, i + 1, now)
         ELSE IF out.submit.kind # "response"
         THEN IF AttemptCatches(out.submit.kind)
              THEN RegisterFrom(url, email, try, script, i + 1, now)
              ELSE Escaped(out.submit.kind, now)
         ELSE [ raised    |-> FALSE,
                success   |-> RegClassified[out.submit.body].success,
                message   |-> RegClassified[out.submit.body].message,
                fetched   |-> now,
                submitted |-> FillEmail(form_data, email) ]

register_to_newsletter(url, email, paths, script) ==
    RegisterFrom(url, email, PathsToTry(paths), script, 1, << >>)

\* ---- the pages and responses the model draws from

EmailInput   == [type |-> "email", name |-> "EMAIL", value |-> "", mail_like |-> TRUE]
SearchInput  == [type |-> "text", name |-> "q", value |-> "", mail_like |-> FALSE]
HiddenInput  == [type |-> "hidden", name |-> "list", value |-> "42", mail_like |-> FALSE]
SubmitInput  == [type |-> "submit", name |-> "go", value |-> "Subscribe", mail_like |-> FALSE]

SearchForm ==
    [ inputs |-> << SearchInput >>, markup |-> << "S", "e", "a", "r", "c", "h" >>,
      action |-> "/search", method |-> "get" ]
NewsletterForm ==
    [ inputs |-> << HiddenInput, EmailInput, SubmitInput >>,
      markup |-> << "S", "u", "b", "s", "c", "r", "i", "b", "e" >>,
      action |-> "/subscribe", method |-> None ]

PageNoForm == << SearchForm >>
PageWithForm == << SearchForm, NewsletterForm >>

PathOutcomes ==
         {[kind |-> "Timeout"]}
    \cup {[kind |-> "page", status |-> 404, forms |-> PageNoForm,
           submit |-> [kind |-> "Timeout"]]}
    \cup {[kind |-> "page", status |-> 200, forms |-> PageNoForm,
           submit |-> [kind |-> "Timeout"]]}
    \cup {[kind |-> "page", status |-> 200, forms |-> PageWithForm, submit |-> sub] :
              sub \in {[kind |-> "ConnectionError"]}
                      \cup {[kind |-> "response", body |-> b] : b \in RegBodies}}

(***************************************************************************)
(* register_newsletters.run() (register_newsletters.py 171-248).           *)
(***************************************************************************)
MaxSites == 2
MaxEmails == 2

\* the rows read_newsletter_sites keeps (has_newsletter true, confidence >= 30),
\* in the order random.shuffle left them in
CatalogPaths ==
    << << "/newsletter" >>, << "/subscribe", "/" >>, << >>, << "/" >> >>
SiteCatalog(i) ==
    [ domain     |-> DomainName(i),
      url        |-> IF i % 2 = 1 THEN base_url(DomainName(i)) \o "/"
                     ELSE "https://www." \o DomainName(i) \o "/newsletter",
      confidence |-> IF i % 2 = 1 THEN 65 ELSE 50,
      paths      |-> CatalogPaths[((i - 1) % Len(CatalogPaths)) + 1] ]

\* the lines of emails.txt
EmailFile == << "ann@mail.test", "bob@mail.test", "cy@mail.test", "dee@mail.test" >>

\* lines 161-169: save_result appends the row, or logs the error of open()
save_result_Dropped(rows, row) == rows
save_result(rows, row) == IF output_ok THEN Append(rows, row) ELSE rows

ResultRow(site, email, r) ==
    [ domain |-> site.domain, url |-> site.url, email |-> email,
      success |-> r.success, message |-> r.message ]

CallEntry(i, j, r) == [site |-> i, email |-> j, success |-> r.success]

\* line 201: the first attempt decides whether the other emails are tried
FirstSucceeded_Always(r) == TRUE
FirstSucceeded(r) == r.success

RegFrame == UNCHANGED <<an_vars, run_vars, cls_vars, fn_vars>>

RegInit ==
    /\ \E n \in 0..MaxSites : sites = [i \in 1..n |-> SiteCatalog(i)]
    /\ \E m \in 0..MaxEmails : emails = [j \in 1..m |-> EmailFile[j]]
    /\ output_ok \in BOOLEAN
    /\ reg_pc = "start"
    /\ site_i = 0
    /\ email_j = 0
    /\ success_count = 0
    /\ fail_count = 0
    /\ skipped_count = 0
    /\ sites_with_success = 0
    /\ reg_results = << >>
    /\ reg_calls = << >>
    /\ reg_last = NoResult

\* lines 175-186
RegStart ==
    /\ reg_pc = "start"
    /\ IF sites = << >>
       THEN reg_pc' = "returned" /\ site_i' = site_i
       ELSE reg_pc' = "first" /\ site_i' = 1
    /\ UNCHANGED <<sites, emails, email_j, success_count, fail_count, skipped_count,
                   sites_with_success, reg_results, reg_calls, reg_last, output_ok>>
    /\ RegFrame

\* line 195 with no email address: IndexError, caught at line 247
RegNoEmail ==
    /\ reg_pc = "first"
    /\ emails = << >>
    /\ reg_pc' = "fatal"
    /\ UNCHANGED <<sites, emails, site_i, email_j, success_count, fail_count,
                   skipped_count, sites_with_success, reg_results, reg_calls, reg_last,
                   output_ok>>
    /\ RegFrame

\* lines 195-206 and 225-229: the first email against the site
RegFirst ==
    /\ reg_pc = "first"
    /\ emails # << >>
    /\ LET site == sites[site_i]
       IN \E script \in [1..Len(PathsToTry(site.paths)) -> PathOutcomes] :
            LET r == register_to_newsletter(site.url, emails[1], site.paths, script)
            IN /\ reg_calls' = Append(reg_calls, CallEntry(site_i, 1, r))
               /\ reg_last' = r
               /\ reg_results' = save_result(reg_results, ResultRow(site, emails[1], r))
               /\ IF FirstSucceeded(r)
                  THEN /\ success_count' = success_count + 1
                       /\ sites_with_success' = sites_with_success + 1
                       /\ email_j' = 2
                       /\ reg_pc' = IF Len(emails) >= 2 THEN "remaining" ELSE "next_site"
                       /\ UNCHANGED <<fail_count, skipped_count>>
                  ELSE /\ fail_count' = fail_count + 1
                       /\ skipped_count' = skipped_count + (Len(emails) - 1)
                       /\ reg_pc' = "next_site"
                       /\ UNCHANGED <<success_count, sites_with_success, email_j>>
    /\ UNCHANGED <<sites, emails, site_i, output_ok>>
    /\ RegFrame

\* lines 209-224: one pass of the loop over EMAIL_ADDRESSES[1:]
RegRemaining ==
    /\ reg_pc = "remaining"
    /\ LET site == sites[site_i]
       IN \E script \in [1..Len(PathsToTry(site.paths)) -> PathOutcomes] :
            LET r == register_to_newsletter(site.url, emails[email_j], site.paths, script)
            IN /\ reg_calls' = Append(reg_calls, CallEntry(site_i, email_j, r))
               /\ reg_last' = r
               /\ reg_results' =
                      save_result(reg_results, ResultRow(site, emails[email_j], r))
               /\ IF r.success
                  THEN success_count' = success_count + 1 /\ UNCHANGED fail_count
                  ELSE fail_count' = fail_count + 1 /\ UNCHANGED success_count
    /\ email_j' = email_j + 1
    /\ reg_pc' = IF email_j + 1 <= Len(emails) THEN "remaining" ELSE "next_site"
    /\ UNCHANGED <<sites, emails, site_i, skipped_count, sites_with_success, output_ok>>
    /\ RegFrame

\* lines 232-234 and the next pass of the loop over sites, or lines 236-246
RegNextSite ==
    /\ reg_pc = "next_site"
    /\ IF site_i < Len(sites)
       THEN site_i' = site_i + 1 /\ reg_pc' = "first"
       ELSE site_i' = site_i /\ reg_pc' = "done"
    /\ UNCHANGED <<sites, emails, email_j, success_count, fail_count, skipped_count,
                   sites_with_success, reg_results, reg_calls, reg_last, output_ok>>
    /\ RegFrame

RegisterInit == AnIdle /\ RunIdle /\ RegInit /\ ClsIdle /\ FnIdle

RegisterNext == RegStart \/ RegNoEmail \/ RegFirst \/ RegRemaining \/ RegNextSite

RegisterSpec == RegisterInit /\ [][RegisterNext]_vars

(***************************************************************************)
(* Properties of the registration run.                                     *)
(***************************************************************************)
\* the first attempt against site i succeeded, among the first k calls
FirstAttemptSucceeded(i, k) ==
    \E f \in 1..k :
        reg_calls[f].site = i /\ reg_calls[f].email = 1 /\ reg_calls[f].success

\* call k is the last one its site gets
SiteFinishedAt(k) ==
    \/ reg_calls[k].email = 1 /\ ~reg_calls[k].success
    \/ reg_calls[k].email = Len(emails) /\ FirstAttemptSucceeded(reg_calls[k].site, k)

FailedFirst ==
    {i \in 1..Len(sites) :
        \E k \in 1..Len(reg_calls) :
            reg_calls[k] = [site |-> i, email |-> 1, success |-> FALSE]}

CallsTo(i) == {k \in 1..Len(reg_calls) : reg_calls[k].site = i}

\* the rows of OUTPUT_CSV for site i
RowsFor(i) == {k \in 1..Len(reg_results) : reg_results[k].domain = sites[i].domain}

\* the counters count the failed calls, the successful calls and, for each
\* site whose first attempt failed, the emails left out
CountersAfterFailures ==
    /\ fail_count = Cardinality({k \in 1..Len(reg_calls) : ~reg_calls[k].success})
    /\ success_count = Cardinality({k \in 1..Len(reg_calls) : reg_calls[k].success})
    /\ skipped_count = (Len(emails) - 1) * Cardinality(FailedFirst)

\* C17 as stated: a site whose first attempt fails has exactly one row
\* persisted, that of the failed first attempt; it adds 1 to fail_count, N-1
\* to skipped_count and nothing to success_count.
C17_OneRowPersisted ==
    /\ \A i \in FailedFirst :
          /\ Cardinality(CallsTo(i)) = 1
          /\ Cardinality(RowsFor(i)) = 1
          /\ \A k \in RowsFor(i) :
                reg_results[k].email = emails[1] /\ ~reg_results[k].success
    /\ CountersAfterFailures

\* C17: a site whose first attempt fails gets exactly one save_result call,
\* for the failed first attempt; its row is persisted when OUTPUT_CSV can be
\* appended to, and lost (the error is logged) when it cannot; the site adds 1
\* to fail_count, N-1 to skipped_count and nothing to success_count.
C17_OneRowWhenWritable ==
    /\ \A i \in FailedFirst :
          /\ Cardinality(CallsTo(i)) = 1
          /\ Cardinality(RowsFor(i)) = (IF output_ok THEN 1 ELSE 0)
          /\ \A k \in RowsFor(i) :
                reg_results[k].email = emails[1] /\ ~reg_results[k].success
    /\ CountersAfterFailures

\* the only site answered the first email with an error message: one row, one
\* failure, the other email skipped
C17_Witness ==
    /\ reg_pc = "done"
    /\ Len(sites) = 1
    /\ Len(emails) = MaxEmails
    /\ output_ok
    /\ FailedFirst = {1}
    /\ Len(reg_results) = 1
    /\ reg_results[1].message = "Failed - error message in response"
    /\ fail_count = 1
    /\ skipped_count = MaxEmails - 1
    /\ success_count = 0

(***************************************************************************)
(* find_newsletter_form on one page: the forms of the page are drawn from  *)
(* FormCatalog, the call is one step.                                      *)
(***************************************************************************)
MaxForms == 3

UnnamedEmailInput ==
    [type |-> "email", name |-> None, value |-> "", mail_like |-> FALSE]
PlaceholderInput ==
    [type |-> "text", name |-> "contact", value |-> "", mail_like |-> TRUE]

\* an email input and no newsletter keyword
LoginForm ==
    [ inputs |-> << EmailInput, SubmitInput >>, markup |-> << "L", "o", "g", " ", "i", "n" >>,
      action |-> "/login", method |-> "POST" ]
\* a newsletter keyword and no email input
ArchiveForm ==
    [ inputs |-> << SearchInput >>, markup |-> << "N", "E", "W", "S", "L", "E", "T", "T", "E", "R" >>,
      action |-> "", method |-> "get" ]
\* <input type="email" placeholder="you@example.com"> without a name attribute
UnnamedForm ==
    [ inputs |-> << UnnamedEmailInput, HiddenInput >>, markup |-> << "J", "o", "i", "n", " ", "u", "s" >>,
      action |-> "https://list.example/subscribe", method |-> None ]
\* a text input whose placeholder says "Your e-mail"
PlaceholderForm ==
    [ inputs |-> << PlaceholderInput >>, markup |-> << "M", "a", "i", "l", "i", "n", "g" >>,
      action |-> "", method |-> "GET" ]

FormCatalog ==
    {SearchForm, NewsletterForm, LoginForm, ArchiveForm, UnnamedForm, PlaceholderForm}

FormUrls == {"https://blog.com/", "https://www.blog.com/newsletter"}

FormFrame == UNCHANGED <<an_vars, run_vars, reg_vars, cls_vars, det_doc, det_out,
                         att_site, att_script, att_out>>

FormInit ==
    /\ form_page \in UNION {[1..n -> FormCatalog] : n \in 0..MaxForms}
    /\ form_url \in FormUrls
    /\ form_out = NoOutcome

FindForm ==
    /\ form_out = NoOutcome
    /\ form_out' = [returned |-> find_newsletter_form(form_page, form_url)]
    /\ UNCHANGED <<form_page, form_url>>
    /\ FormFrame

FormSpecInit == AnIdle /\ RunIdle /\ RegIdle /\ ClsIdle /\ DetIdle /\ FormInit /\ AttIdle

FormNext == FindForm

FormSpec == FormSpecInit /\ [][FormNext]_vars

(***************************************************************************)
(* Properties of find_newsletter_form, under FormSpec.                     *)
(***************************************************************************)
\* C11: every descriptor find_newsletter_form returns has its email_field
\* among the keys of its fields, also when the first email input of the form
\* has no name attribute.
C11_EmailFieldIsAKey ==
    (form_out # NoOutcome /\ form_out.returned # NoResult) =>
        form_out.returned.email_field \in DOMAIN form_out.returned.fields

\* (a) of C19: an email-typed input, or a text input with an email-like
\* name/id/placeholder
HasEmailLikeInput(form) ==
    \E i \in 1..Len(form.inputs) :
        \/ form.inputs[i].type = "email"
        \/ form.inputs[i].type = "text" /\ form.inputs[i].mail_like

\* (b) of C19: a newsletter keyword in the lower-cased markup
HasNewsletterKeyword(form) ==
    \E j \in 1..Len(newsletter_keywords) :
        Contains(Lower(form.markup), newsletter_keywords[j])

QualifyingForms ==
    {i \in 1..Len(form_page) :
        HasEmailLikeInput(form_page[i]) /\ HasNewsletterKeyword(form_page[i])}

\* C19: find_newsletter_form returns the descriptor of the first form, in
\* document order, that has an email-like input and a newsletter keyword in
\* its lower-cased markup, and returns None when the page has no such form.
C19_FirstQualifyingFormWins ==
    form_out # NoOutcome =>
        IF QualifyingForms = {}
        THEN form_out.returned = NoResult
        ELSE LET first == CHOOSE i \in QualifyingForms :
                              \A j \in QualifyingForms : i <= j
             IN /\ form_out.returned # NoResult
                /\ form_out.returned = FormDescriptor(form_page[first], form_url)

\* a login form is skipped, the placeholder form is taken, the newsletter form
\* after it is not
C19_Witness ==
    /\ form_out # NoOutcome
    /\ form_page = << LoginForm, PlaceholderForm, NewsletterForm >>
    /\ form_out.returned # NoResult
    /\ form_out.returned.email_field = "contact"

(***************************************************************************)
(* One call of register_to_newsletter: the site and what its paths meet    *)
(* are drawn at the start, the call is one step.                           *)
(***************************************************************************)
\* PathOutcomes with the other exceptions the body of the loop can raise
AttemptOutcomes ==
         PathOutcomes
    \cup {[kind |-> "ConnectionError"], [kind |-> "ParseError"]}
    \cup {[kind |-> "page", status |-> 200, forms |-> PageWithForm,
           submit |-> [kind |-> "Timeout"]]}

AttemptSites == {SiteCatalog(i) : i \in 1..Len(CatalogPaths)}

AttFrame == UNCHANGED <<an_vars, run_vars, reg_vars, cls_vars, det_doc, det_out,
                        form_page, form_url, form_out>>

AttInit ==
    /\ att_site \in AttemptSites
    /\ att_script \in [1..Len(PathsToTry(att_site.paths)) -> AttemptOutcomes]
    /\ att_out = NoOutcome

Attempt ==
    /\ att_out = NoOutcome
    /\ att_out' = register_to_newsletter(att_site.url, EmailFile[1], att_site.paths,
                                         att_script)
    /\ UNCHANGED <<att_site, att_script>>
    /\ AttFrame

AttemptInit == AnIdle /\ RunIdle /\ RegIdle /\ ClsIdle /\ DetIdle /\ FormIdle /\ AttInit

AttemptNext == Attempt

AttemptSpec == AttemptInit /\ [][AttemptNext]_vars

(***************************************************************************)
(* Properties of register_to_newsletter, under AttemptSpec.                *)
(***************************************************************************)
\* what the k-th path tried would give on its own: "success", "error" (the
\* submission is classified as an error) or "none" (no submission classified)
PathVerdict(k) ==
    LET out == att_script[k] IN
    IF out.kind # "page" THEN "none"
    ELSE IF out.status >= 400 THEN "none"
    ELSE IF \A i \in 1..Len(out.forms) : ~Qualifies(out.forms[i]) THEN "none"
    ELSE IF out.submit.kind # "response" THEN "none"
    ELSE IF AnyIn(Lower(out.submit.body), error_keywords) THEN "error"
    ELSE "success"

\* C12: the call reports success exactly when some path of the list yields a
\* successful submission; a path whose submission is classified as an error
\* does not keep the later paths from being tried.
C12_AnyPathSuccessCounts ==
    att_out # NoOutcome =>
        (att_out.success <=> \E k \in 1..Len(att_script) : PathVerdict(k) = "success")

\* the URLs of the recorded paths, in recorded order
RecordedUrls == [k \in 1..Len(att_site.paths) |-> UrlBase(att_site.url) \o att_site.paths[k]]

IsPrefix(a, b) == Len(a) <= Len(b) /\ \A k \in 1..Len(a) : a[k] = b[k]

\* C13: the call fetches the recorded paths in recorded order, the first
\* recorded path first, and the root only when no path is recorded.
C13_RecordedPathsFirst ==
    att_out # NoOutcome =>
        /\ att_out.fetched # << >>
        /\ IF att_site.paths = << >>
           THEN att_out.fetched = << UrlBase(att_site.url) \o "/" >>
           ELSE /\ att_out.fetched[1] = RecordedUrls[1]
                /\ IsPrefix(att_out.fetched, RecordedUrls)

AttemptMessages ==
    { "Success - confirmation detected", "Failed - error message in response",
      "Success - form submitted", "Failed - no working form found" }

\* C16: whatever the paths meet (fetch error, timeout, status >= 400, no
\* qualifying form, submission error, unparsable page), no exception leaves
\* the call: it returns a (success, message) pair, and (False, "Failed - no
\* working form found") when no path had its submission classified.
C16_FailuresAreReturned ==
    att_out # NoOutcome =>
        /\ ~att_out.raised
        /\ att_out.success \in BOOLEAN
        /\ att_out.message \in AttemptMessages
        /\ (\A k \in 1..Len(att_script) : PathVerdict(k) = "none") =>
               /\ ~att_out.success
               /\ att_out.message = "Failed - no working form found"
               /\ Len(att_out.fetched) = Len(att_script)

\* the root met a connection error, the recorded path an unparsable page
C16_Witness ==
    /\ att_out # NoOutcome
    /\ att_script = << [kind |-> "ConnectionError"], [kind |-> "ParseError"] >>
    /\ att_out.message = "Failed - no working form found"
    /\ ~att_out.raised

(***************************************************************************)
(* detect_newsletter on one document (app.py 102-155), with the text of    *)
(* the document and the re.search of lines 128-138.                        *)
(***************************************************************************)
MaxDocForms == 1
MaxButtons == 2

\* the literal parts of each newsletter_patterns entry, between its ".*"
PatternParts(p) ==
    CASE p = "newsletter.*sign.*up" ->
           << << "n", "e", "w", "s", "l", "e", "t", "t", "e", "r" >>,
              << "s", "i", "g", "n" >>, << "u", "p" >> >>
      [] p = "subscribe.*newsletter" ->
           << << "s", "u", "b", "s", "c", "r", "i", "b", "e" >>,
              << "n", "e", "w", "s", "l", "e", "t", "t", "e", "r" >> >>
      [] p = "join.*mailing.*list" ->
           << << "j", "o", "i", "n" >>, << "m", "a", "i", "l", "i", "n", "g" >>,
              << "l", "i", "s", "t" >> >>
      [] p = "email.*subscription" ->
           << << "e", "m", "a", "i", "l" >>,
              << "s", "u", "b", "s", "c", "r", "i", "p", "t", "i", "o", "n" >> >>
      [] p = "get.*weekly.*digest" ->
           << << "g", "e", "t" >>, << "w", "e", "e", "k", "l", "y" >>,
              << "d", "i", "g", "e", "s", "t" >> >>

\* ".*" matches any run of characters without a newline
NoNewline(text, from, to) == \A k \in from..to : text[k] # "\n"

\* the parts occur in this order in text, from position `from` on, the first
\* anywhere (anchored = FALSE) or after a run ".*" matches (anchored = TRUE)
RECURSIVE MatchParts(_, _, _, _)
MatchParts(parts, text, from, anchored) ==
    IF parts = << >> THEN TRUE
    ELSE \E i \in from..(Len(text) - Len(Head(parts)) + 1) :
            /\ SubSeq(text, i, i + Len(Head(parts)) - 1) = Head(parts)
            /\ anchored => NoNewline(text, from, i - 1)
            /\ MatchParts(Tail(parts), text, i + Len(Head(parts)), TRUE)

\* re.search(pattern, text)
ReSearch(p, text) == MatchParts(PatternParts(p), text, 1, FALSE)

\* lines 135-138 as if the loop stopped at the first pattern found
PatternsIn_FirstOnly(text) ==
    LET found == {i \in 1..Len(NewsletterPatterns) : ReSearch(NewsletterPatterns[i], Lower(text))}
    IN {NewsletterPatterns[i] : i \in {j \in found : \A k \in found : j <= k}}

\* lines 104 and 135-136: the patterns found in soup.get_text(" ").lower()
PatternsIn(text) ==
    {p \in Range(NewsletterPatterns) : ReSearch(p, Lower(text))}

\* the document as detect_newsletter sees it
DocumentOf(page) ==
    [ forms |-> page.forms, patterns |-> PatternsIn(page.text),
      services |-> page.services, iframes |-> page.iframes ]

\* the example of the specification
DigestText ==
    << "S", "u", "b", "s", "c", "r", "i", "b", "e", " ", "t", "o", " ", "o",
    "u", "r", " ", "N", "e", "w", "s", "l", "e", "t", "t", "e", "r", " ",
    "a", "n", "d", " ", "g", "e", "t", " ", "o", "u", "r", " ", "w", "e",
    "e", "k", "l", "y", " ", "d", "i", "g", "e", "s", "t" >>

DocTexts ==
    { << >>,
      DigestText,
      << "N", "e", "w", "s", "l", "e", "t", "t", "e", "r", " ", "S", "i", "g", "n", " ", "U", "p" >>,
      << "n", "e", "w", "s", "l", "e", "t", "t", "e", "r", "\n", "s", "i", "g", "n", " ", "u", "p" >>,
      << "J", "o", "i", "n", " ", "o", "u", "r", " ", "m", "a", "i", "l", "i", "n", "g", " ", "l", "i", "s", "t" >> }

DocForms ==
    [ email_inputs : 0..1, named_inputs : 0..1, action_kw : BOOLEAN,
      kw_buttons : 0..MaxButtons ]

DocServices == { {}, {"mailchimp"}, {"mailchimp", "substack"} }

DetFrame == UNCHANGED <<an_vars, run_vars, reg_vars, cls_vars, form_page, form_url,
                        form_out, att_site, att_script, att_out>>

DetInit ==
    /\ det_doc \in [ text : DocTexts,
                     forms : UNION {[1..n -> DocForms] : n \in 0..MaxDocForms},
                     services : DocServices, iframes : 0..1 ]
    /\ det_out = NoResult

Detect ==
    /\ det_out = NoResult
    /\ det_out' = detect_newsletter(DocumentOf(det_doc))
    /\ UNCHANGED det_doc
    /\ DetFrame

DetectInit == AnIdle /\ RunIdle /\ RegIdle /\ ClsIdle /\ DetInit /\ FormIdle /\ AttIdle

DetectNext == Detect

DetectSpec == DetectInit /\ [][DetectNext]_vars

(***************************************************************************)
(* Properties of detect_newsletter, under DetectSpec.                      *)
(***************************************************************************)
\* the fixed weight of a signal
SignalWeight(sig) ==
    CASE sig = "form:email_input_type"    -> W_EMAIL_INPUT
      [] sig = "form:email_named_input"   -> W_NAMED_INPUT
      [] sig = "form:newsletter_action"   -> W_ACTION
      [] sig = "form:newsletter_button"   -> W_BUTTON
      [] sig = "iframe:newsletter_widget" -> W_IFRAME
      [] sig \in {PatternSignal(p) : p \in Range(NewsletterPatterns)} -> W_PATTERN
      [] sig \in {ServiceSignal(x) : x \in Range(NewsletterServices)} -> W_SERVICE

RECURSIVE WeightSum(_)
WeightSum(signals) ==
    IF signals = << >> THEN 0
    ELSE SignalWeight(Head(signals)) + WeightSum(Tail(signals))

\* C14: detect_newsletter classifies a document exactly when the weights of
\* the signals it returns sum to at least 30.
C14_ClassifiedBySignalWeights ==
    det_out # NoResult =>
        (det_out.has_newsletter <=> WeightSum(det_out.signals) >= 30)

IsDigestExample ==
    /\ det_doc # NoResult
    /\ det_doc.text = DigestText
    /\ det_doc.forms = << >>
    /\ det_doc.services = {}
    /\ det_doc.iframes = 0
    /\ det_out # NoResult

\* C15 as stated: the example text scores 10, one pattern contributing, and
\* is not classified.
C15_DigestScoresTen ==
    IsDigestExample =>
        /\ det_out.confidence = 10
        /\ ~det_out.has_newsletter
        /\ Len(det_out.signals) = 1

\* C15: the example text "Subscribe to our Newsletter and get our weekly
\* digest", with no forms, providers or iframes, scores 20 and is not
\* classified: two of the five patterns match it, subscribe.*newsletter and
\* get.*weekly.*digest.
C15_DigestScoresTwenty ==
    IsDigestExample =>
        /\ det_out.confidence = 20
        /\ ~det_out.has_newsletter
        /\ det_out.signals =
               << "pattern:get.*weekly.*digest", "pattern:subscribe.*newslette" >>

C15_Witness == IsDigestExample /\ det_out.confidence = 20

(***************************************************************************)
(* The root's early exit, under AnalyzeSpec.                               *)
(***************************************************************************)
\* the root was fetched with status < 400 and scored at least 50
RootScoredHigh ==
    /\ an_log # << >>
    /\ an_log[1].path = "/"
    /\ an_log[1].fetched
    /\ an_log[1].confidence >= 50

\* C18: when the root is fetched and scores at least 50, analyze_domain fetches
\* no further path and returns found_paths "/" and the root's confidence.
C18_RootHighStopsExploration ==
    RootScoredHigh =>
        /\ Len(an_log) = 1
        /\ an_pc \in {"after_loop", "returned"}
        /\ an_pc = "returned" =>
               /\ an_result # NoResult
               /\ an_result.found_paths = << "/" >>
               /\ an_result.confidence = an_log[1].confidence
               /\ an_result.url = an_log[1].url

\* the root scored 65 and the call returned
C18_Witness ==
    /\ RootScoredHigh
    /\ an_log[1].confidence = 65
    /\ an_pc = "returned"
    /\ an_result.confidence = 65

(***************************************************************************)
(* The returned record, under AnalyzeSpec.                                 *)
(***************************************************************************)
\* the f"{path}:{signal}" tags whose path is among `paths`
TagsOf(paths) == {p \o ":" \o sig : p \in Range(paths), sig \in Range(SignalOrder)}

\* C21: a record returned by analyze_domain has confidence 0 or >= 30, also
\* when a fetched path scored between 1 and 29; has_newsletter, found_paths
\* non-empty and confidence >= 30 hold together or not at all; every signal of
\* the record is tagged with a path of found_paths.
C21_RecordIsConsistent ==
    (an_pc = "returned" /\ an_result # NoResult) =>
        /\ an_result.confidence = 0 \/ an_result.confidence >= 30
        /\ an_result.has_newsletter <=> (an_result.found_paths # << >>)
        /\ an_result.has_newsletter <=> (an_result.confidence >= 30)
        /\ \A k \in 1..Len(an_result.signals) :
               an_result.signals[k] \in TagsOf(an_result.found_paths)

\* the root scored 10 and is left out of the record; /newsletter scored 30 and
\* makes it
C21_Witness ==
    /\ an_pc = "returned"
    /\ an_result # NoResult
    /\ an_log[1].fetched /\ an_log[1].confidence = 10
    /\ an_log[2].fetched /\ an_log[2].confidence = 30
    /\ an_result.confidence = 30
    /\ an_result.found_paths = << "/newsletter" >>
    /\ an_result.signals = << "/newsletter:form:newsletter_button" >>

====
